---- MODULE Spec2Model ----
(***************************************************************************)
(* Model of package xip (bosh-release/src/xip/xip.go): the DNS responder   *)
(* that answers a query with the IP address embedded in the queried name.  *)
(*                                                                         *)
(* Strings are sequences of one-character strings, so that the regular     *)
(* expressions, the address parser and the address formatter work on the   *)
(* characters as the Go code does.                                         *)
(***************************************************************************)
EXTENDS Integers, Sequences, FiniteSets, TLC

Nil == "nil"

(***************************************************************************)
(* Characters                                                              *)
(***************************************************************************)
Digits == {"0", "1", "2", "3", "4", "5", "6", "7", "8", "9"}
LowerHex == {"a", "b", "c", "d", "e", "f"}
UpperHex == {"A", "B", "C", "D", "E", "F"}
HexChars == Digits \cup LowerHex \cup UpperHex
Lower == LowerHex \cup {"g", "h", "i", "j", "k", "l", "m", "n", "o", "p", "q",
                        "r", "s", "t", "u", "v", "w", "x", "y", "z"}
Upper == UpperHex \cup {"G", "H", "I", "J", "K", "L", "M", "N", "O", "P", "Q",
                        "R", "S", "T", "U", "V", "W", "X", "Y", "Z"}
AlNum == Digits \cup Lower \cup Upper

HexDigitSeq == <<"0", "1", "2", "3", "4", "5", "6", "7", "8", "9",
                 "a", "b", "c", "d", "e", "f">>
UpperHexSeq == <<"0", "1", "2", "3", "4", "5", "6", "7", "8", "9",
                 "A", "B", "C", "D", "E", "F">>

\* the numeric value of a decimal or hexadecimal digit character
DigitVal(c) ==
    (CHOOSE k \in 1..16 : HexDigitSeq[k] = c \/ UpperHexSeq[k] = c) - 1

(***************************************************************************)
(* Regular expressions (package regexp, leftmost-first semantics).         *)
(* A pattern is a tree; Ends(re, s, i) is the list of positions at which a *)
(* match of re that starts after the first i characters of s can end, in   *)
(* the order in which a backtracking matcher tries them: the first         *)
(* alternative before the second, more repetitions before fewer.           *)
(***************************************************************************)
Set(cs) == [t |-> "set", cs |-> cs]
Ch(c) == Set({c})
Cat(rs) == [t |-> "cat", rs |-> rs]
Alt(rs) == [t |-> "alt", rs |-> rs]
Rep(r, lo, hi) == [t |-> "rep", r |-> r, lo |-> lo, hi |-> hi]
Bol == [t |-> "bol"]
Eol == [t |-> "eol"]
\* the upper limit of an open repetition {n,}
Unbounded == -1

RECURSIVE Ends(_, _, _), CatEnds(_, _, _, _), AltEnds(_, _, _, _),
          RepEnds(_, _, _, _), EndsFromAll(_, _, _, _)

\* the ends of re from each start of the list `starts`, from position k on
EndsFromAll(re, s, starts, k) ==
    IF k > Len(starts) THEN <<>>
    ELSE Ends(re, s, starts[k]) \o EndsFromAll(re, s, starts, k + 1)

CatEnds(rs, k, s, starts) ==
    IF k > Len(rs) THEN starts
    ELSE CatEnds(rs, k + 1, s, EndsFromAll(rs[k], s, starts, 1))

AltEnds(rs, k, s, i) ==
    IF k > Len(rs) THEN <<>>
    ELSE Ends(rs[k], s, i) \o AltEnds(rs, k + 1, s, i)

RECURSIVE RepFromAll(_, _, _, _, _)
RepFromAll(re, n, s, starts, k) ==
    IF k > Len(starts) THEN <<>>
    ELSE RepEnds(re, n, s, starts[k]) \o RepFromAll(re, n, s, starts, k + 1)

\* n repetitions are done; greedy: one more repetition is tried first
RepEnds(re, n, s, i) ==
    LET more == IF re.hi = Unbounded \/ n < re.hi
                THEN RepFromAll(re, n + 1, s,
                                SelectSeq(Ends(re.r, s, i), LAMBDA e : e > i), 1)
                ELSE <<>>
        stop == IF n >= re.lo THEN <<i>> ELSE <<>>
    IN  more \o stop

Ends(re, s, i) ==
    CASE re.t = "set" -> IF i < Len(s) /\ s[i + 1] \in re.cs THEN <<i + 1>> ELSE <<>>
      [] re.t = "bol" -> IF i = 0 THEN <<i>> ELSE <<>>
      [] re.t = "eol" -> IF i = Len(s) THEN <<i>> ELSE <<>>
      [] re.t = "cat" -> CatEnds(re.rs, 1, s, <<i>>)
      [] re.t = "alt" -> AltEnds(re.rs, 1, s, i)
      [] re.t = "rep" -> RepEnds(re, 0, s, i)

(***************************************************************************)
(* Both patterns of the package have the shape (prefix)(group 2)(suffix).  *)
(* A pattern is kept as the triple of these parts.                         *)
(***************************************************************************)
\* no match
NoMatch == <<>>

RECURSIVE Group2From(_, _, _, _), Group2Body(_, _, _, _, _)

\* the first (a, b) in backtracking order such that group 2 spans s[a+1..b]
\* and the suffix matches at b; as is the list of ends of the prefix
Group2Body(re, s, a, bs, k) ==
    IF k > Len(bs) THEN NoMatch
    ELSE IF Ends(re.suffix, s, bs[k]) # <<>> THEN <<a, bs[k]>>
    ELSE Group2Body(re, s, a, bs, k + 1)

Group2From(re, s, as, k) ==
    IF k > Len(as) THEN NoMatch
    ELSE LET g == Group2Body(re, s, as[k], Ends(re.body, s, as[k]), 1)
         IN  IF g # NoMatch THEN g ELSE Group2From(re, s, as, k + 1)

\* the match that starts at position p (p characters skipped), or NoMatch
MatchAt(re, s, p) == Group2From(re, s, Ends(re.prefix, s, p), 1)

RECURSIVE FindFrom(_, _, _)
\* the leftmost match that starts at position p or later, or NoMatch
FindFrom(re, s, p) ==
    IF p > Len(s) THEN NoMatch
    ELSE LET g == MatchAt(re, s, p)
         IN  IF g # NoMatch THEN g ELSE FindFrom(re, s, p + 1)

\* regexp.Match: is there a match anywhere in s
Match(re, s) == FindFrom(re, s, 0) # NoMatch

\* regexp.FindSubmatch(s)[2]: group 2 of the leftmost match
FindSubmatch2(re, s) ==
    LET g == FindFrom(re, s, 0)
    IN  SubSeq(s, g[1] + 1, g[2])

Sep == Set({".", "-"})
Digit == Set(Digits)
\* (25[0-5]|(2[0-4]|1{0,1}[0-9]){0,1}[0-9])
Octet ==
    Alt(<<Cat(<<Ch("2"), Ch("5"), Set({"0", "1", "2", "3", "4", "5"})>>),
          Cat(<<Rep(Alt(<<Cat(<<Ch("2"), Set({"0", "1", "2", "3", "4"})>>),
                          Cat(<<Rep(Ch("1"), 0, 1), Digit>>)>>), 0, 1),
                Digit>>)>>)

ipv4RE ==
    [prefix |-> Alt(<<Bol, Sep>>),
     body   |-> Cat(<<Rep(Cat(<<Octet, Sep>>), 3, 3), Octet>>),
     suffix |-> Alt(<<Eol, Sep>>)]

H4 == Rep(Set(HexChars), 1, 4)
Dash == Ch("-")
H4Dash == Cat(<<H4, Dash>>)
DashH4 == Cat(<<Dash, H4>>)
\* ((25[0-5]|...)\.){3,3}(25[0-5]|...)
DottedQuad == Cat(<<Rep(Cat(<<Octet, Ch(".")>>), 3, 3), Octet>>)

ipv6RE ==
    [prefix |-> Alt(<<Bol, Sep>>),
     body   |-> Alt(<<
        Cat(<<Rep(H4Dash, 7, 7), H4>>),
        Cat(<<Rep(H4Dash, 1, 7), Dash>>),
        Cat(<<Rep(H4Dash, 1, 6), Dash, H4>>),
        Cat(<<Rep(H4Dash, 1, 5), Rep(DashH4, 1, 2)>>),
        Cat(<<Rep(H4Dash, 1, 4), Rep(DashH4, 1, 3)>>),
        Cat(<<Rep(H4Dash, 1, 3), Rep(DashH4, 1, 4)>>),
        Cat(<<Rep(H4Dash, 1, 2), Rep(DashH4, 1, 5)>>),
        Cat(<<H4, Dash, Rep(DashH4, 1, 6)>>),
        Cat(<<Dash, Alt(<<Rep(DashH4, 1, 7), Dash>>)>>),
        Cat(<<Ch("f"), Ch("e"), Ch("8"), Ch("0"), Dash,
              Rep(Cat(<<Dash, Rep(Set(HexChars), 0, 4)>>), 0, 4),
              Ch("%"), Rep(Set(AlNum), 1, Unbounded)>>),
        Cat(<<Dash, Dash,
              Rep(Cat(<<Ch("f"), Ch("f"), Ch("f"), Ch("f"),
                        Rep(Cat(<<Dash, Rep(Ch("0"), 1, 4)>>), 0, 1),
                        Dash>>), 0, 1),
              DottedQuad>>),
        Cat(<<Rep(H4Dash, 1, 4), Dash, DottedQuad>>)>>),
     suffix |-> Alt(<<Eol, Sep>>)]

(***************************************************************************)
(* Package net: ParseIP, IP.To4, IP.To16 and IP.String.  An IP is a        *)
(* sequence of 4 or 16 bytes, or NilIP.                                     *)
(*                                                                         *)
(* Go releases differ on one point the package depends on: since Go 1.17   *)
(* ParseIP rejects a decimal field with a leading zero ("01"), before it   *)
(* read the field as decimal.  The variable strictParse says which of the  *)
(* two the build is.                                                       *)
(***************************************************************************)
VARIABLE strictParse

\* the nil slice
NilIP == <<>>

IPv4len == 4
IPv6len == 16

RECURSIVE DtoiLoop(_, _, _), XtoiLoop(_, _, _)
\* dtoi: the decimal number s starts with: value, characters used, ok
DtoiLoop(s, i, n) ==
    IF i < Len(s) /\ s[i + 1] \in Digits
    THEN LET m == n * 10 + DigitVal(s[i + 1])
         IN  IF m >= 16777215 THEN [n |-> 16777215, c |-> i, ok |-> FALSE]
             ELSE DtoiLoop(s, i + 1, m)
    ELSE IF i = 0 THEN [n |-> 0, c |-> 0, ok |-> FALSE]
    ELSE [n |-> n, c |-> i, ok |-> TRUE]
Dtoi(s) == DtoiLoop(s, 0, 0)

\* xtoi: the hexadecimal number s starts with
XtoiLoop(s, i, n) ==
    IF i < Len(s) /\ s[i + 1] \in HexChars
    THEN LET m == n * 16 + DigitVal(s[i + 1])
         IN  IF m >= 16777215 THEN [n |-> 0, c |-> i, ok |-> FALSE]
             ELSE XtoiLoop(s, i + 1, m)
    ELSE IF i = 0 THEN [n |-> 0, c |-> i, ok |-> FALSE]
    ELSE [n |-> n, c |-> i, ok |-> TRUE]
Xtoi(s) == XtoiLoop(s, 0, 0)

Drop(s, k) == SubSeq(s, k + 1, Len(s))
Zeros(k) == [j \in 1..k |-> 0]

\* net.IPv4(a, b, c, d): the 16-byte form of an IPv4 address
IPv4(a, b, c, d) == Zeros(10) \o <<255, 255, a, b, c, d>>

\* IP.To4: the 4-byte form, or NilIP when ip is not an IPv4 address
To4(ip) ==
    IF ip = NilIP THEN NilIP
    ELSE IF Len(ip) = IPv4len THEN ip
    ELSE IF /\ Len(ip) = IPv6len
            /\ \A j \in 1..10 : ip[j] = 0
            /\ ip[11] = 255
            /\ ip[12] = 255
         THEN SubSeq(ip, 13, 16)
    ELSE NilIP

\* IP.To16: the 16-byte form, or NilIP
To16(ip) ==
    IF ip = NilIP THEN NilIP
    ELSE IF Len(ip) = IPv4len THEN IPv4(ip[1], ip[2], ip[3], ip[4])
    ELSE IF Len(ip) = IPv6len THEN ip
    ELSE NilIP

RECURSIVE ParseIPv4Loop(_, _, _)
\* parseIPv4's loop: field i of 0..3 is next, p holds the fields read
ParseIPv4Loop(s, i, p) ==
    IF i = IPv4len
    THEN IF Len(s) # 0 THEN NilIP ELSE IPv4(p[1], p[2], p[3], p[4])
    ELSE IF Len(s) = 0 THEN NilIP
    ELSE IF i > 0 /\ s[1] # "." THEN NilIP
    ELSE LET t == IF i > 0 THEN Drop(s, 1) ELSE s
             d == Dtoi(t)
         IN  IF ~d.ok \/ d.n > 255 THEN NilIP
             ELSE IF strictParse /\ d.c > 1 /\ t[1] = "0" THEN NilIP
             ELSE ParseIPv4Loop(Drop(t, d.c), i + 1, Append(p, d.n))
ParseIPv4(s) == ParseIPv4Loop(s, 0, <<>>)

\* the end of parseIPv6: i bytes were read, the rest of the string is s
ExpandEllipsis(ip, i, ellipsis, s) ==
    IF Len(s) # 0 THEN NilIP
    ELSE IF i < IPv6len
    THEN IF ellipsis < 0 THEN NilIP
         ELSE SubSeq(ip, 1, ellipsis) \o Zeros(IPv6len - i)
                  \o SubSeq(ip, ellipsis + 1, i)
    ELSE IF ellipsis >= 0 THEN NilIP
    ELSE ip

RECURSIVE ParseIPv6Loop(_, _, _)
\* parseIPv6's loop: ip holds the bytes read so far (i = Len(ip))
ParseIPv6Loop(s, ip, ellipsis) ==
    LET i == Len(ip)
    IN
    IF i >= IPv6len THEN ExpandEllipsis(ip, i, ellipsis, s)
    ELSE
    LET x == Xtoi(s)
    IN
    IF ~x.ok \/ x.n > 65535 THEN NilIP
    ELSE IF x.c < Len(s) /\ s[x.c + 1] = "."
    THEN \* a trailing IPv4 address
         IF ellipsis < 0 /\ i # IPv6len - IPv4len THEN NilIP
         ELSE IF i + IPv4len > IPv6len THEN NilIP
         ELSE LET ip4 == ParseIPv4(s)
              IN  IF ip4 = NilIP THEN NilIP
                  ELSE ExpandEllipsis(ip \o SubSeq(ip4, 13, 16), i + IPv4len,
                                      ellipsis, <<>>)
    ELSE
    LET ip2 == ip \o <<x.n \div 256, x.n % 256>>
        s2 == Drop(s, x.c)
    IN
    IF Len(s2) = 0 THEN ExpandEllipsis(ip2, i + 2, ellipsis, s2)
    ELSE IF s2[1] # ":" \/ Len(s2) = 1 THEN NilIP
    ELSE LET s3 == Drop(s2, 1)
         IN  IF s3[1] = ":"
             THEN IF ellipsis >= 0 THEN NilIP
                  ELSE IF Len(s3) = 1
                       THEN ExpandEllipsis(ip2, i + 2, i + 2, <<>>)
                       ELSE ParseIPv6Loop(Drop(s3, 1), ip2, i + 2)
             ELSE ParseIPv6Loop(s3, ip2, ellipsis)

ParseIPv6(s) ==
    IF Len(s) >= 2 /\ s[1] = ":" /\ s[2] = ":"
    THEN IF Len(s) = 2 THEN Zeros(IPv6len)
         ELSE ParseIPv6Loop(Drop(s, 2), <<>>, 0)
    ELSE ParseIPv6Loop(s, <<>>, -1)

\* net.ParseIP: the first '.' or ':' of s decides the family
ParseIP(s) ==
    IF \E k \in 1..Len(s) : s[k] \in {".", ":"}
    THEN LET k == CHOOSE k \in 1..Len(s) :
                      /\ s[k] \in {".", ":"}
                      /\ \A j \in 1..(k - 1) : s[j] \notin {".", ":"}
         IN  IF s[k] = "." THEN ParseIPv4(s) ELSE ParseIPv6(s)
    ELSE NilIP

RECURSIVE Uitoa(_), HexString(_)
\* uitoa: decimal digits of n
Uitoa(n) ==
    IF n < 10 THEN <<HexDigitSeq[n + 1]>>
    ELSE Uitoa(n \div 10) \o <<HexDigitSeq[(n % 10) + 1]>>
\* appendHex: lower-case hexadecimal digits of n, no leading zeros
HexString(n) ==
    IF n < 16 THEN <<HexDigitSeq[n + 1]>>
    ELSE HexString(n \div 16) \o <<HexDigitSeq[(n % 16) + 1]>>

RECURSIVE ZeroRunEnd(_, _), LongestZeroRun(_, _, _, _), PrintWords(_, _, _, _)
\* where the run of zero 16-bit words that starts at byte offset j ends
ZeroRunEnd(p, j) ==
    IF j < IPv6len /\ p[j + 1] = 0 /\ p[j + 2] = 0 THEN ZeroRunEnd(p, j + 2) ELSE j
\* IP.String's first loop: <<e0, e1>>, the longest run of zero words
LongestZeroRun(p, i, e0, e1) ==
    IF i >= IPv6len THEN <<e0, e1>>
    ELSE LET j == ZeroRunEnd(p, i)
         IN  IF j > i /\ j - i > e1 - e0
             THEN LongestZeroRun(p, j + 2, i, j)
             ELSE LongestZeroRun(p, i + 2, e0, e1)
\* IP.String's second loop, from byte offset i on
PrintWords(p, i, e0, e1) ==
    IF i >= IPv6len THEN <<>>
    ELSE IF i = e0
    THEN <<":", ":">> \o
         (IF e1 >= IPv6len THEN <<>>
          ELSE HexString(p[e1 + 1] * 256 + p[e1 + 2]) \o PrintWords(p, e1 + 2, e0, e1))
    ELSE (IF i > 0 THEN <<":">> ELSE <<>>) \o
         HexString(p[i + 1] * 256 + p[i + 2]) \o PrintWords(p, i + 2, e0, e1)

\* net.IP.String for a 4-byte or 16-byte address
IPString(ip) ==
    LET p4 == To4(ip)
    IN  IF p4 # NilIP
        THEN Uitoa(p4[1]) \o <<".">> \o Uitoa(p4[2]) \o <<".">> \o
             Uitoa(p4[3]) \o <<".">> \o Uitoa(p4[4])
        ELSE LET e == LongestZeroRun(ip, 0, -1, -1)
                 e0 == IF e[2] - e[1] <= 2 THEN -1 ELSE e[1]
                 e1 == IF e[2] - e[1] <= 2 THEN -1 ELSE e[2]
             IN  PrintWords(ip, 0, e0, e1)

\* strings.Replace(s, old, new, -1) for one-character old and new
Replace(s, old, new) == [k \in 1..Len(s) |-> IF s[k] = old THEN new ELSE s[k]]

(***************************************************************************)
(* The package's constants and tables                                      *)
(***************************************************************************)
Hostmaster == <<"b", "r", "i", "a", "n", "c", "u", "n", "n", "i", "e", ".", "g", "m", "a", "i", "l", ".", "c", "o", "m", ".">>
MxHost == <<"m", "a", "i", "l", ".", "p", "r", "o", "t", "o", "n", "m", "a", "i", "l", ".", "c", "h", ".">>
SslipIo == <<"s", "s", "l", "i", "p", ".", "i", "o", ".">>
NsAws == <<"n", "s", "-", "a", "w", "s", ".", "n", "o", "n", "o", ".", "i", "o", ".">>
NsAzure == <<"n", "s", "-", "a", "z", "u", "r", "e", ".", "n", "o", "n", "o", ".", "i", "o", ".">>
NsGce == <<"n", "s", "-", "g", "c", "e", ".", "n", "o", "n", "o", ".", "i", "o", ".">>

ErrNotFound == "record not found"

OurAandAAAARecords ==
    [n \in {SslipIo} |->
        [A |-> <<78, 46, 204, 247>>,
         AAAA |-> <<42, 1, 4, 248, 12, 23, 11, 143, 0, 0, 0, 0, 0, 0, 0, 2>>]]

NameServers ==
    [n \in {NsAws, NsAzure, NsGce} |->
        CASE n = NsAws -> <<52, 0, 56, 137>>
          [] n = NsAzure -> <<52, 187, 42, 158>>
          [] n = NsGce -> <<104, 155, 144, 4>>]

(***************************************************************************)
(* NameToA and NameToAAAA.  The result is what the call returns (the       *)
(* address and the error) or that it panicked; `path` lists the lookups    *)
(* the call made, in order.                                                *)
(***************************************************************************)
\* NameToA that tries the pattern before the tables
NameToAPatternFirst(fqdnString) ==
    IF Match(ipv4RE, fqdnString)
    THEN LET match == Replace(FindSubmatch2(ipv4RE, fqdnString), "-", ".")
             ipv4address == To4(ParseIP(match))
         IN  [A |-> IF ipv4address = NilIP THEN Zeros(4) ELSE ipv4address,
              err |-> Nil, panic |-> ipv4address = NilIP, path |-> <<"ipv4RE">>]
    ELSE IF fqdnString \in DOMAIN OurAandAAAARecords
    THEN [A |-> OurAandAAAARecords[fqdnString].A, err |-> Nil, panic |-> FALSE,
          path |-> <<"ipv4RE", "OurAandAAAARecords">>]
    ELSE IF fqdnString \in DOMAIN NameServers
    THEN [A |-> NameServers[fqdnString], err |-> Nil, panic |-> FALSE,
          path |-> <<"ipv4RE", "OurAandAAAARecords", "NameServers">>]
    ELSE [A |-> Zeros(4), err |-> ErrNotFound, panic |-> FALSE,
          path |-> <<"ipv4RE", "OurAandAAAARecords", "NameServers">>]

NameToA(fqdnString) ==
    IF fqdnString \in DOMAIN OurAandAAAARecords
    THEN [A |-> OurAandAAAARecords[fqdnString].A, err |-> Nil, panic |-> FALSE,
          path |-> <<"OurAandAAAARecords">>]
    ELSE IF fqdnString \in DOMAIN NameServers
    THEN [A |-> NameServers[fqdnString], err |-> Nil, panic |-> FALSE,
          path |-> <<"OurAandAAAARecords", "NameServers">>]
    ELSE IF ~Match(ipv4RE, fqdnString)
    THEN [A |-> Zeros(4), err |-> ErrNotFound, panic |-> FALSE,
          path |-> <<"OurAandAAAARecords", "NameServers", "ipv4RE">>]
    ELSE LET match == Replace(FindSubmatch2(ipv4RE, fqdnString), "-", ".")
             ipv4address == To4(ParseIP(match))
         IN  IF ipv4address = NilIP
             THEN \* indexing the nil slice: runtime panic
                  [A |-> Zeros(4), err |-> Nil, panic |-> TRUE,
                   path |-> <<"OurAandAAAARecords", "NameServers", "ipv4RE">>]
             ELSE [A |-> ipv4address, err |-> Nil, panic |-> FALSE,
                   path |-> <<"OurAandAAAARecords", "NameServers", "ipv4RE">>]

NameToAAAA(fqdnString) ==
    IF fqdnString \in DOMAIN OurAandAAAARecords
    THEN [AAAA |-> OurAandAAAARecords[fqdnString].AAAA, err |-> Nil,
          panic |-> FALSE, path |-> <<"OurAandAAAARecords">>]
    ELSE IF ~Match(ipv6RE, fqdnString)
    THEN [AAAA |-> Zeros(16), err |-> ErrNotFound, panic |-> FALSE,
          path |-> <<"OurAandAAAARecords", "ipv6RE">>]
    ELSE LET match == Replace(FindSubmatch2(ipv6RE, fqdnString), "-", ":")
             ipv16address == To16(ParseIP(match))
         IN  \* the copy loop ranges over ipv16address: no iteration when nil
             [AAAA |-> IF ipv16address = NilIP THEN Zeros(16) ELSE ipv16address,
              err |-> Nil, panic |-> FALSE,
              path |-> <<"OurAandAAAARecords", "ipv6RE">>]

\* dnsmessage.Type, kept as the name Type.String prints after "Type"
TypeA == <<"A">>
TypeNS == <<"N", "S">>
TypeSOA == <<"S", "O", "A">>
TypeMX == <<"M", "X">>
TypeTXT == <<"T", "X", "T">>
TypeAAAA == <<"A", "A", "A", "A">>
TypeALL == <<"A", "L", "L">>
ClassINET == "ClassINET"

\* Type.String
TypeString(t) == <<"T", "y", "p", "e">> \o t

\* NSResources: one NSResource per entry of NameServers, keyed by name
NSResources == [n \in DOMAIN NameServers |-> [type |-> TypeNS, NS |-> n]]

MXResource == [type |-> TypeMX, Pref |-> 0, MX |-> MxHost]

\* SOAResource returns the hard-coded SOA
SOAResource(domain) ==
    [type |-> TypeSOA, NS |-> domain, MBox |-> Hostmaster, Serial |-> 2020120100,
     Refresh |-> 900, Retry |-> 900, Expire |-> 1800, MinTTL |-> 300]

(***************************************************************************)
(* Package dnsmessage as the package uses it: errors, the header, the      *)
(* Builder with its sections.  A message is kept as its header and its     *)
(* sections of records, not as bytes.                                      *)
(***************************************************************************)
NoError == [type |-> "nil", info |-> ""]
ErrNotStarted == [type |-> "errorString", info |-> "parsing/packing of this type isn't available yet"]
ErrSectionDone == [type |-> "errorString", info |-> "parsing/packing of this section has completed"]
ErrBaseLen == [type |-> "errorString", info |-> "insufficient data for base length type"]
ErrUnexpected == [type |-> "errorString", info |-> "processQuestion() returned unexpected error type"]
\* &DNSError{RCode: rcode}
DNSError(rcode) == [type |-> "DNSError", info |-> rcode]

RCodeSuccess == "RCodeSuccess"
RCodeNotImplemented == "RCodeNotImplemented"

sectionNotStarted == 0
sectionHeader == 1
sectionQuestions == 2
sectionAnswers == 3
sectionAuthorities == 4
sectionAdditionals == 5
sectionDone == 6


\* ResponseHeader that copies the query's header and sets what a response needs
ResponseHeaderFromQuery(query, rcode) ==
    [query EXCEPT !.Response = TRUE, !.Authoritative = TRUE, !.Truncated = FALSE,
                  !.RecursionAvailable = FALSE, !.RCode = rcode]

\* ResponseHeader returns a pre-fab DNS response header
ResponseHeader(query, rcode) ==
    [ID |-> query.ID,
     Response |-> TRUE,
     OpCode |-> 0,
     Authoritative |-> TRUE,
     Truncated |-> FALSE,
     RecursionDesired |-> query.RecursionDesired,
     RecursionAvailable |-> FALSE,
     RCode |-> rcode]

\* dnsmessage.NewBuilder(buf, h) with an empty buf
NewBuilder(h) ==
    [header |-> h, section |-> sectionHeader, compression |-> FALSE,
     Questions |-> <<>>, Answers |-> <<>>, Authorities |-> <<>>,
     Additionals |-> <<>>]

EnableCompression(b) == [b EXCEPT !.compression = TRUE]

\* Builder.startCheck
StartCheck(b, sec) ==
    IF b.section <= sectionNotStarted THEN ErrNotStarted
    ELSE IF b.section > sec THEN ErrSectionDone
    ELSE NoError

\* Builder.StartQuestions, StartAnswers, StartAuthorities: <<builder, error>>
StartSection(b, sec) ==
    LET e == StartCheck(b, sec)
    IN  IF e # NoError THEN [b |-> b, err |-> e]
        ELSE [b |-> [b EXCEPT !.section = sec], err |-> NoError]
StartQuestions(b) == StartSection(b, sectionQuestions)
StartAnswers(b) == StartSection(b, sectionAnswers)
StartAuthorities(b) == StartSection(b, sectionAuthorities)

\* Builder.Question
BuilderQuestion(b, q) ==
    IF b.section < sectionQuestions THEN [b |-> b, err |-> ErrNotStarted]
    ELSE IF b.section > sectionQuestions THEN [b |-> b, err |-> ErrSectionDone]
    ELSE [b |-> [b EXCEPT !.Questions = Append(@, q)], err |-> NoError]

\* Builder.checkResourceSection
CheckResourceSection(b) ==
    IF b.section < sectionAnswers THEN ErrNotStarted
    ELSE IF b.section > sectionAdditionals THEN ErrSectionDone
    ELSE NoError

\* Builder.AResource, AAAAResource, NSResource, MXResource, SOAResource: the
\* record goes to the open section, its header's Type set from the body
BuilderResource(b, h, r) ==
    LET e == CheckResourceSection(b)
        rr == [Name |-> h.Name, Type |-> r.type, Class |-> h.Class,
               TTL |-> h.TTL, Body |-> r]
    IN  IF e # NoError THEN [b |-> b, err |-> e]
        ELSE IF b.section = sectionAnswers
        THEN [b |-> [b EXCEPT !.Answers = Append(@, rr)], err |-> NoError]
        ELSE IF b.section = sectionAuthorities
        THEN [b |-> [b EXCEPT !.Authorities = Append(@, rr)], err |-> NoError]
        ELSE [b |-> [b EXCEPT !.Additionals = Append(@, rr)], err |-> NoError]

\* the bytes Builder.Finish returns, as the message they encode
Message(b) ==
    [Header |-> b.header, Questions |-> b.Questions, Answers |-> b.Answers,
     Authorities |-> b.Authorities, Additionals |-> b.Additionals]
\* a nil byte slice; the bytes of a message m are <<m>>
NoBytes == <<>>

\* Builder.Finish
Finish(b) ==
    IF b.section < sectionHeader THEN [bytes |-> NoBytes, err |-> ErrNotStarted]
    ELSE [bytes |-> <<Message(b)>>, err |-> NoError]

(***************************************************************************)
(* processQuestion(q, &b).  nsOrder is the order in which the range over   *)
(* the map NSResources() visits its keys.  The result is the builder       *)
(* afterwards, the log message, the error, and whether the call panicked.  *)
(***************************************************************************)
ResourceHeader(qname, type, ttl) ==
    [Name |-> qname, Type |-> type, Class |-> ClassINET, TTL |-> ttl, Length |-> 0]

Returns(b, logMessage, err) ==
    [b |-> b, logMessage |-> logMessage, err |-> err, panic |-> FALSE]

\* StartAuthorities, then one SOA record for the queried name
AuthoritySOA(q, b, logMessage, type) ==
    LET s1 == StartAuthorities(b)
        s2 == BuilderResource(s1.b, ResourceHeader(q.Name, type, 604800),
                              SOAResource(q.Name))
    IN  IF s1.err # NoError THEN Returns(s1.b, logMessage, s1.err)
        ELSE IF s2.err # NoError THEN Returns(s2.b, logMessage, s2.err)
        ELSE Returns(s2.b, logMessage \o <<"n", "i", "l", ",", " ", "S", "O", "A">>, NoError)

\* StartAnswers, then one record r, then `result` appended to the log
AnswerOne(q, b, logMessage, type, r, result) ==
    LET s1 == StartAnswers(b)
        s2 == BuilderResource(s1.b, ResourceHeader(q.Name, type, 604800), r)
    IN  IF s1.err # NoError THEN Returns(s1.b, logMessage, s1.err)
        ELSE IF s2.err # NoError THEN Returns(s2.b, logMessage, s2.err)
        ELSE Returns(s2.b, logMessage \o result, NoError)

\* the loop over NSResources() leaving after its first iteration
AddFirstNameServer(q, br, nsOrder, k) ==
    IF k > Len(nsOrder) THEN br
    ELSE BuilderResource(br.b, ResourceHeader(q.Name, TypeNS, 604800),
                         NSResources[nsOrder[k]])

RECURSIVE AddNameServers(_, _, _, _)
\* the loop over NSResources(): err keeps the last call's error only
AddNameServers(q, br, nsOrder, k) ==
    IF k > Len(nsOrder) THEN br
    ELSE AddNameServers(q,
             BuilderResource(br.b, ResourceHeader(q.Name, TypeNS, 604800),
                             NSResources[nsOrder[k]]),
             nsOrder, k + 1)

processQuestion(q, b, nsOrder) ==
    LET logMessage == TypeString(q.Type) \o <<" ">> \o q.Name \o <<" ", "?", " ">>
    IN
    CASE q.Type = TypeA ->
           LET nameToA == NameToA(q.Name)
           IN  IF nameToA.panic
               THEN [b |-> b, logMessage |-> logMessage, err |-> NoError, panic |-> TRUE]
               ELSE IF nameToA.err # Nil
               THEN AuthoritySOA(q, b, logMessage, TypeA)
               ELSE AnswerOne(q, b, logMessage, TypeSOA,
                              [type |-> TypeA, A |-> nameToA.A], IPString(nameToA.A))
      [] q.Type = TypeAAAA ->
           LET nameToAAAA == NameToAAAA(q.Name)
           IN  IF nameToAAAA.err # Nil
               THEN AuthoritySOA(q, b, logMessage, TypeSOA)
               ELSE AnswerOne(q, b, logMessage, TypeAAAA,
                              [type |-> TypeAAAA, AAAA |-> nameToAAAA.AAAA],
                              IPString(nameToAAAA.AAAA))
      [] q.Type = TypeALL ->
           Returns(b, logMessage, DNSError(RCodeNotImplemented))
      [] q.Type = TypeMX ->
           AnswerOne(q, b, logMessage, TypeMX, MXResource, <<"M", "X">>)
      [] q.Type = TypeNS ->
           LET s1 == StartAnswers(b)
               s2 == AddNameServers(q, s1, nsOrder, 1)
           IN  IF s1.err # NoError THEN Returns(s1.b, logMessage, s1.err)
               ELSE Returns(s2.b, logMessage \o <<"N", "S">>, s2.err)
      [] q.Type = TypeSOA ->
           AnswerOne(q, b, logMessage, TypeSOA, SOAResource(q.Name), <<"S", "O", "A">>)
      [] OTHER ->
           AuthoritySOA(q, b, logMessage, TypeSOA)

(***************************************************************************)
(* QueryResponse(queryBytes) as a state machine.                           *)
(*                                                                         *)
(* The query is its header and its questions.  The parser reads the        *)
(* questions front to back, and the model fixes each question when the     *)
(* parser first reaches it: `query` holds the questions read so far and    *)
(* `ending` says what follows them: not read yet ("open"), the end of the  *)
(* question section ("done") or bytes that do not parse ("malformed").     *)
(* Under SpecRepeat QueryResponse is invoked twice on the same bytes (run   *)
(* 1, then run 2, which reads the same questions again); `prev` keeps      *)
(* what run 1 returned.                                                    *)
(***************************************************************************)
MaxQuestions == 2
MaxID == 1

NameIPv4 == <<"1", "-", "2", "-", "3", "-", "4", ".", "i", "o", ".">>
NameLeadingZero == <<"0", "1", ".", "2", ".", "3", ".", "4", ".", "5", ".">>
NameIPv6 == <<"-", "-", "1", ".", "i", "o", ".">>
NamePlain == <<"w", "w", "w", ".", "i", "o", ".">>
QueryNames == {NameIPv4, NameLeadingZero, NamePlain, NameIPv6, SslipIo, NsAws}
QueryTypes == {TypeA, TypeNS, TypeSOA, TypeMX, TypeTXT, TypeAAAA, TypeALL}
Questions == [Name : QueryNames, Type : QueryTypes, Class : {ClassINET}]

\* the orders in which a range over a map with key set S can visit it
RangeOrders(S) ==
    {f \in [1..Cardinality(S) -> S] :
        \A i, j \in 1..Cardinality(S) : i # j => f[i] # f[j]}

VARIABLES
    hdr,            \* the query's header; hdr.ok: the 12 header bytes are there
    query,          \* the questions of the query read so far
    ending,         \* what follows them in the query bytes
    run,            \* 1 or 2: which invocation this is
    pc,             \* "call", "loop", "finish", "return" or "panic"
    queryHeader,    \* QueryResponse's local queryHeader
    off,            \* the parser's position: questions parsed
    b,              \* the dnsmessage.Builder
    logMessage,     \* the named results of QueryResponse
    err,
    responseBytes,
    processed,      \* history: the questions processQuestion was called for
    prev,           \* what run 1 returned
    name,           \* NameToA / NameToAAAA called on their own: the argument
    nameToA,        \* and their results
    nameToAAAA

vars == <<strictParse, hdr, query, ending, run, pc, queryHeader, off, b,
          logMessage, err, responseBytes, processed, prev, name, nameToA,
          nameToAAAA>>
extractVars == <<name, nameToA, nameToAAAA>>
queryVars == <<hdr, query, ending, run, pc, queryHeader, off, b, logMessage,
               err, responseBytes, processed, prev>>

\* the zero values of the Go types
ZeroHeader ==
    [ID |-> 0, Response |-> FALSE, OpCode |-> 0, Authoritative |-> FALSE,
     Truncated |-> FALSE, RecursionDesired |-> FALSE,
     RecursionAvailable |-> FALSE, RCode |-> RCodeSuccess]
ZeroBuilder ==
    [header |-> ZeroHeader, section |-> sectionNotStarted, compression |-> FALSE,
     Questions |-> <<>>, Answers |-> <<>>, Authorities |-> <<>>,
     Additionals |-> <<>>]
NoResult == [pc |-> "none", responseBytes |-> NoBytes, logMessage |-> <<>>,
             err |-> NoError]
NotCalled == [err |-> Nil, panic |-> FALSE, path |-> <<>>]

\* the headers of the queries: any ID and recursion-desired bit, and either a
\* standard query or a query with the other bits and the opcode set
QueryHeaders ==
    {[ID |-> i, Response |-> set, OpCode |-> IF set THEN 2 ELSE 0,
      Authoritative |-> set, Truncated |-> set, RecursionDesired |-> rd,
      RecursionAvailable |-> set, RCode |-> RCodeSuccess] :
        i \in 0..MaxID, rd \in BOOLEAN, set \in BOOLEAN}

IdleExtract ==
    /\ name = <<>>
    /\ nameToA = NotCalled
    /\ nameToAAAA = NotCalled

Init ==
    /\ strictParse \in BOOLEAN
    /\ hdr \in [ok : {TRUE}, h : QueryHeaders] \cup {[ok |-> FALSE, h |-> ZeroHeader]}
    /\ query = <<>>
    /\ ending = "open"
    /\ run = 1
    /\ pc = "call"
    /\ queryHeader = ZeroHeader
    /\ off = 0
    /\ b = ZeroBuilder
    /\ logMessage = <<>>
    /\ err = NoError
    /\ responseBytes = NoBytes
    /\ processed = <<>>
    /\ prev = NoResult
    /\ IdleExtract

\* lines 66-78: p.Start, NewBuilder, EnableCompression, StartQuestions
Start ==
    /\ pc = "call"
    /\ IF ~hdr.ok
       THEN /\ err' = ErrBaseLen
            /\ pc' = "return"
            /\ UNCHANGED <<queryHeader, b>>
       ELSE LET s == StartQuestions(EnableCompression(
                         NewBuilder(ResponseHeader(hdr.h, RCodeSuccess))))
            IN  /\ queryHeader' = hdr.h
                /\ b' = s.b
                /\ err' = s.err
                /\ pc' = IF s.err # NoError THEN "return" ELSE "loop"
    /\ UNCHANGED <<strictParse, hdr, query, ending, run, off, logMessage,
                   responseBytes, processed, prev, name, nameToA, nameToAAAA>>

\* lines 81-84: p.Question reports the end of the section: break
LoopSectionDone ==
    /\ pc = "loop"
    /\ off = Len(query)
    /\ \/ ending = "done"
       \/ ending = "open" /\ run = 1
    /\ ending' = "done"
    /\ err' = ErrSectionDone
    /\ pc' = "finish"
    /\ UNCHANGED <<strictParse, hdr, query, run, queryHeader, off, b, logMessage,
                   responseBytes, processed, prev, name, nameToA, nameToAAAA>>

\* lines 81-87: p.Question fails on the bytes: return
LoopParseError ==
    /\ pc = "loop"
    /\ off = Len(query)
    /\ \/ ending = "malformed"
       \/ ending = "open" /\ run = 1
    /\ ending' = "malformed"
    /\ err' = ErrBaseLen
    /\ pc' = "return"
    /\ UNCHANGED <<strictParse, hdr, query, run, queryHeader, off, b, logMessage,
                   responseBytes, processed, prev, name, nameToA, nameToAAAA>>

\* lines 88-105: the rest of the iteration once p.Question returned q
Iteration(q) ==
    \E bq \in {BuilderQuestion(b, q)} :
    IF bq.err # NoError
    THEN /\ err' = bq.err
         /\ pc' = "return"
         /\ b' = bq.b
         /\ UNCHANGED <<logMessage, processed, queryHeader>>
    ELSE
    \E nsOrder \in (IF q.Type = TypeNS THEN RangeOrders(DOMAIN NSResources)
                    ELSE {<<>>}) :
      \E pq \in {processQuestion(q, bq.b, nsOrder)} :
          /\ processed' = Append(processed, q)
          /\ IF pq.panic
             THEN \* the panic unwinds QueryResponse: nothing is returned
                  /\ pc' = "panic"
                  /\ b' = pq.b
                  /\ UNCHANGED <<logMessage, err, queryHeader>>
             ELSE IF pq.err = NoError
             THEN /\ pc' = "loop"
                  /\ logMessage' = pq.logMessage
                  /\ b' = pq.b
                  /\ err' = pq.err
                  /\ UNCHANGED queryHeader
             ELSE IF pq.err.type = "DNSError"
             THEN /\ queryHeader' = [queryHeader EXCEPT !.RCode = pq.err.info]
                  /\ logMessage' = pq.logMessage
                  /\ b' = EnableCompression(NewBuilder(
                              ResponseHeader(queryHeader', RCodeNotImplemented)))
                  /\ err' = pq.err
                  /\ pc' = "finish"
             ELSE /\ err' = ErrUnexpected
                  /\ logMessage' = pq.logMessage
                  /\ pc' = "return"
                  /\ b' = pq.b
                  /\ UNCHANGED queryHeader

\* lines 80-106: one iteration of the loop for a question of the query
LoopQuestion ==
    /\ pc = "loop"
    /\ \/ /\ off < Len(query)
          /\ Iteration(query[off + 1])
          /\ UNCHANGED query
       \/ /\ off = Len(query)
          /\ ending = "open"
          /\ run = 1
          /\ Len(query) < MaxQuestions
          /\ \E q \in Questions :
               /\ query' = Append(query, q)
               /\ Iteration(q)
    /\ off' = off + 1
    /\ UNCHANGED <<strictParse, hdr, ending, run, responseBytes, prev, name,
                   nameToA, nameToAAAA>>

\* lines 108-113: b.Finish and return
FinishAndReturn ==
    /\ pc = "finish"
    /\ LET f == Finish(b)
       IN  /\ responseBytes' = f.bytes
           /\ err' = f.err
    /\ pc' = "return"
    /\ UNCHANGED <<strictParse, hdr, query, ending, run, queryHeader, off, b,
                   logMessage, processed, prev, name, nameToA, nameToAAAA>>

\* the caller invokes QueryResponse on the same bytes a second time
CallAgain ==
    /\ pc \in {"return", "panic"}
    /\ run = 1
    /\ prev' = [pc |-> pc, responseBytes |-> responseBytes,
                logMessage |-> logMessage, err |-> err]
    /\ run' = 2
    /\ pc' = "call"
    /\ queryHeader' = ZeroHeader
    /\ off' = 0
    /\ b' = ZeroBuilder
    /\ logMessage' = <<>>
    /\ err' = NoError
    /\ responseBytes' = NoBytes
    /\ processed' = <<>>
    /\ UNCHANGED <<strictParse, hdr, query, ending, name, nameToA, nameToAAAA>>

\* one invocation of QueryResponse
Next ==
    \/ Start
    \/ LoopSectionDone
    \/ LoopParseError
    \/ LoopQuestion
    \/ FinishAndReturn

Spec == Init /\ [][Next]_vars

\* two invocations of QueryResponse on the same query bytes
NextRepeat ==
    \/ Start
    \/ LoopSectionDone
    \/ LoopParseError
    \/ LoopQuestion
    \/ FinishAndReturn
    \/ CallAgain

SpecRepeat == Init /\ [][NextRepeat]_vars

(***************************************************************************)
(* NameToA and NameToAAAA called on their own, on names made of groups     *)
(* joined by '.' or '-' and closed by the final '.', and on the names of   *)
(* the tables.                                                             *)
(***************************************************************************)
MaxGroups == 4

Groups == {<<"1">>, <<"0", "1">>, <<"0", "0", "1">>, <<"x">>}
Separators == {".", "-"}

RECURSIVE Join(_, _, _)
\* groups gs[k..] joined by the separators seps[k..]
Join(gs, seps, k) ==
    IF k = Len(gs) THEN gs[k]
    ELSE gs[k] \o <<seps[k]>> \o Join(gs, seps, k + 1)

GroupNames ==
    UNION {{Join(gs, seps, 1) \o <<".">> :
               gs \in [1..n -> Groups], seps \in [1..(n - 1) -> Separators]} :
           n \in 1..MaxGroups}

\* names with more groups than GroupNames has, and names for the IPv6 pattern
OtherNames == {<<"0", "1", ".", "2", ".", "3", ".", "4", ".", "5", ".">>,
              <<"2", "5", "6", ".", "2", "5", "5", ".", "2", "4", "9", ".", "1", "0", ".", "9", "9", ".">>,
              <<"w", "w", "w", ".", "e", "x", "a", "m", "p", "l", "e", ".", "c", "o", "m", ".">>,
              <<"1", "2", "7", "-", "0", "-", "0", "-", "1", ".", "s", "s", "l", "i", "p", ".", "i", "o", ".">>,
              <<"-", "-", "1", ".", "i", "o", ".">>,
              <<"f", "e", "8", "0", "-", "-", "1", "%", "e", "0", ".">>,
              <<"f", "e", "8", "0", "-", "%", "e", ".">>,
              <<"1", "-", "2", "-", "3", "-", "4", "-", "5", "-", "6", "-", "7", "-", "8", ".">>,
              <<"2", "0", "0", "1", "-", "d", "b", "8", "-", "-", "1", ".">>,
              <<"-", "-", "f", "f", "f", "f", "-", "1", ".", "2", ".", "3", ".", "4", ".">>,
              <<"-", "-", "0", "1", ".", "2", ".", "3", ".", "4", ".">>,
              <<"1", "-", "-", "1", ".", "2", ".", "3", ".", "4", ".">>,
              <<"x", "-", "-", "1", ".">>,
              <<"a", "-", "b", ".">>,
              <<"1", "-", "2", "-", "3", "-", "4", "-", "5", "-", "6", "-", "7", "-", "-", ".">>,
              <<"-", "-", ".">>,
              <<"F", "e", "-", "0", "-", "0", "-", "1", "-", "-", "1", ".", "2", ".", "3", ".", "4", ".", "x", ".">>,
              <<"1", "-", "2", "-", "3", "-", "4", "-", "5", ".", "6", ".", "7", ".", "8", ".">>}

ExtractNames ==
    GroupNames \cup OtherNames \cup DOMAIN OurAandAAAARecords \cup DOMAIN NameServers

IdleQuery ==
    /\ hdr = [ok |-> FALSE, h |-> ZeroHeader]
    /\ query = <<>>
    /\ ending = "open"
    /\ run = 1
    /\ pc = "idle"
    /\ queryHeader = ZeroHeader
    /\ off = 0
    /\ b = ZeroBuilder
    /\ logMessage = <<>>
    /\ err = NoError
    /\ responseBytes = NoBytes
    /\ processed = <<>>
    /\ prev = NoResult

InitExtract ==
    /\ strictParse \in BOOLEAN
    /\ name \in ExtractNames
    /\ nameToA = NotCalled
    /\ nameToAAAA = NotCalled
    /\ IdleQuery

CallNameToA ==
    /\ pc = "idle"
    /\ nameToA = NotCalled
    /\ nameToA' = NameToA(name)
    /\ UNCHANGED <<strictParse, name, nameToAAAA, queryVars>>

CallNameToAAAA ==
    /\ pc = "idle"
    /\ name \notin GroupNames
    /\ nameToAAAA = NotCalled
    /\ nameToAAAA' = NameToAAAA(name)
    /\ UNCHANGED <<strictParse, name, nameToA, queryVars>>

NextExtract == CallNameToA \/ CallNameToAAAA

SpecExtract == InitExtract /\ [][NextExtract]_vars


(***************************************************************************)
(* Properties                                                              *)
(***************************************************************************)
Returned == pc = "return"
Response == responseBytes[1]
\* a question of type ANY/ALL was processed
ProcessedALL == \E k \in 1..Len(processed) : processed[k].Type = TypeALL

\* C1: every response returned without an error has the query's ID, the
\* response bit set, opcode 0, the authoritative bit set, recursion-available
\* clear and the query's recursion-desired bit; its RCode is NotImplemented
\* when a question of type ANY/ALL was processed and Success otherwise; and a
\* call that processed an ANY/ALL question returns a nil error.
HeaderPolicy ==
    /\ (Returned /\ err = NoError) =>
          /\ Len(responseBytes) = 1
          /\ Response.Header.ID = hdr.h.ID
          /\ Response.Header.Response = TRUE
          /\ Response.Header.OpCode = 0
          /\ Response.Header.Authoritative = TRUE
          /\ Response.Header.RecursionAvailable = FALSE
          /\ Response.Header.RecursionDesired = hdr.h.RecursionDesired
          /\ Response.Header.RCode =
                 IF ProcessedALL THEN RCodeNotImplemented ELSE RCodeSuccess
    /\ (Returned /\ ProcessedALL) => err = NoError

\* an ANY/ALL question of a query with a non-zero opcode and ID was answered
HeaderPolicyWitness ==
    /\ Returned
    /\ err = NoError
    /\ ProcessedALL
    /\ hdr.h.OpCode # 0
    /\ hdr.h.ID # 0
    /\ hdr.h.RecursionDesired

\* C2: a single-question query of type A, AAAA, SOA or an unknown type gets a
\* response with either answers and no authority record, or no answer and
\* exactly one SOA authority record owned by the queried name; an A question
\* for a name that is in no table and has no embedded IPv4 pattern gets the
\* second.
SingleQuestion ==
    /\ pc \in {"return", "panic"}
    /\ hdr.ok
    /\ Len(query) = 1
    /\ ending # "malformed"
OneSOAAuthority(m, qname) ==
    /\ m.Answers = <<>>
    /\ Len(m.Authorities) = 1
    /\ m.Authorities[1].Type = TypeSOA
    /\ m.Authorities[1].Name = qname
ResolutionShape ==
    (SingleQuestion /\ query[1].Type \in {TypeA, TypeAAAA, TypeSOA, TypeTXT}) =>
        /\ Returned
        /\ err = NoError
        /\ Len(responseBytes) = 1
        /\ \/ Response.Answers # <<>> /\ Response.Authorities = <<>>
           \/ OneSOAAuthority(Response, query[1].Name)
        /\ (/\ query[1].Type = TypeA
            /\ query[1].Name \notin DOMAIN OurAandAAAARecords
            /\ query[1].Name \notin DOMAIN NameServers
            /\ ~Match(ipv4RE, query[1].Name))
               => OneSOAAuthority(Response, query[1].Name)

\* C4: when a question of type ANY/ALL was met, the response echoes every
\* question read so far, the ANY question included, and has no answer and no
\* authority record.
EchoOnALL ==
    (Returned /\ ProcessedALL) =>
        /\ Len(responseBytes) = 1
        /\ Response.Questions = SubSeq(query, 1, off)
        /\ Response.Answers = <<>>
        /\ Response.Authorities = <<>>

\* C5: a well-formed query with one or more questions, none of type ANY/ALL,
\* gets no error and a response that echoes all its questions in order, with
\* a record owned by each question's name.  (The states are those in which
\* QueryResponse returned.)
AllQuestionsAnswered ==
    (/\ Returned
     /\ hdr.ok
     /\ ending # "malformed"
     /\ Len(query) >= 1
     /\ \A k \in 1..Len(query) : query[k].Type # TypeALL) =>
        /\ err = NoError
        /\ Len(responseBytes) = 1
        /\ Response.Questions = query
        /\ \A k \in 1..Len(query) :
              \/ \E j \in 1..Len(Response.Answers) :
                    Response.Answers[j].Name = query[k].Name
              \/ \E j \in 1..Len(Response.Authorities) :
                    Response.Authorities[j].Name = query[k].Name

\* C7: once processQuestion has run for an NS question, whatever the name, the
\* answer section holds exactly one NS record per entry of NameServers
\* (three), each owned by the queried name with TTL 604800, the authority
\* section is empty and processQuestion returned no error; the response to a
\* query of one NS question carries these records; and every record of every
\* section has TTL 604800.
AllRecords == b.Answers \o b.Authorities \o b.Additionals
NSAnswer ==
    /\ (processed # <<>> /\ processed[1].Type = TypeNS) =>
          /\ pc # "panic"
          /\ err # ErrUnexpected
          /\ Cardinality(DOMAIN NameServers) = 3
          /\ Len(b.Answers) = 3
          /\ {b.Answers[k].Body.NS : k \in 1..Len(b.Answers)} = DOMAIN NameServers
          /\ \A k \in 1..Len(b.Answers) :
                /\ b.Answers[k].Type = TypeNS
                /\ b.Answers[k].Name = processed[1].Name
                /\ b.Answers[k].TTL = 604800
          /\ b.Authorities = <<>>
    /\ (SingleQuestion /\ ending = "done" /\ query[1].Type = TypeNS) =>
          /\ Returned
          /\ err = NoError
          /\ responseBytes = <<Message(b)>>
    /\ \A k \in 1..Len(AllRecords) : AllRecords[k].TTL = 604800

\* the response to a query of one NS question
NSAnswerWitness ==
    /\ Returned
    /\ Len(query) = 1
    /\ query[1] = [Name |-> NamePlain, Type |-> TypeNS, Class |-> ClassINET]
    /\ err = NoError
    /\ Len(responseBytes) = 1
    /\ Len(Response.Answers) = 3

(***************************************************************************)
(* The log string                                                          *)
(***************************************************************************)
LogPrefix(q) == TypeString(q.Type) \o <<" ">> \o q.Name \o <<" ", "?", " ">>
NilSOA == <<"n", "i", "l", ",", " ", "S", "O", "A">>

\* the result part of the token of q, as the examples of the package give it
ExpectedResult(q) ==
    CASE q.Type = TypeA /\ q.Name \in {NameIPv4, NameLeadingZero} -> <<"1", ".", "2", ".", "3", ".", "4">>
      [] q.Type = TypeA /\ q.Name = SslipIo -> <<"7", "8", ".", "4", "6", ".", "2", "0", "4", ".", "2", "4", "7">>
      [] q.Type = TypeA /\ q.Name = NsAws -> <<"5", "2", ".", "0", ".", "5", "6", ".", "1", "3", "7">>
      [] q.Type = TypeAAAA /\ q.Name = NameIPv6 -> <<":", ":", "1">>
      [] q.Type = TypeAAAA /\ q.Name = SslipIo -> <<"2", "a", "0", "1", ":", "4", "f", "8", ":", "c", "1", "7", ":", "b", "8", "f", ":", ":", "2">>
      [] q.Type = TypeMX -> <<"M", "X">>
      [] q.Type = TypeNS -> <<"N", "S">>
      [] q.Type = TypeSOA -> <<"S", "O", "A">>
      [] q.Type = TypeALL -> <<>>
      [] OTHER -> NilSOA

RECURSIVE Tokens(_)
\* the tokens of the questions qs, concatenated
Tokens(qs) ==
    IF qs = <<>> THEN <<>>
    ELSE LogPrefix(Head(qs)) \o ExpectedResult(Head(qs)) \o Tokens(Tail(qs))

\* C9: the log string QueryResponse returns is the concatenation, in question
\* order, of one token '<type> <name> ? <result>' per question processed, the
\* result being the address, 'MX', 'NS', 'SOA' or 'nil, SOA'.
LogTokensWithResult ==
    Returned =>
        /\ logMessage = Tokens(processed)
        /\ \A k \in 1..Len(processed) : ExpectedResult(processed[k]) # <<>>

\* C10: two invocations of QueryResponse on the same query bytes return the
\* same response (the NS records of an NS question in the same order), the
\* same log string and the same error.
Deterministic ==
    (run = 2 /\ pc \in {"return", "panic"}) =>
        prev = [pc |-> pc, responseBytes |-> responseBytes,
                logMessage |-> logMessage, err |-> err]

(***************************************************************************)
(* NameToA and NameToAAAA                                                  *)
(***************************************************************************)
CalledA == nameToA.path # <<>>
CalledAAAA == nameToAAAA.path # <<>>
InTables == name \in DOMAIN OurAandAAAARecords \cup DOMAIN NameServers

\* C8: NameToA returns the override's IPv4 for a name of the override table
\* without trying the pattern, else the nameserver's IPv4 for a name of the
\* nameserver table without trying the pattern, else what the IPv4 pattern
\* decides; NameToAAAA returns the override's IPv6 for a name of the override
\* table, else what the IPv6 pattern decides, the nameserver table unread.
ResolutionOrder ==
    /\ CalledA =>
          IF name \in DOMAIN OurAandAAAARecords
          THEN /\ nameToA.path = <<"OurAandAAAARecords">>
               /\ nameToA.err = Nil
               /\ nameToA.A = <<78, 46, 204, 247>>
          ELSE IF name \in DOMAIN NameServers
          THEN /\ nameToA.path = <<"OurAandAAAARecords", "NameServers">>
               /\ nameToA.err = Nil
               /\ nameToA.A = NameServers[name]
          ELSE /\ nameToA.path = <<"OurAandAAAARecords", "NameServers", "ipv4RE">>
               /\ (nameToA.err = Nil) = Match(ipv4RE, name)
    /\ CalledAAAA =>
          IF name \in DOMAIN OurAandAAAARecords
          THEN /\ nameToAAAA.path = <<"OurAandAAAARecords">>
               /\ nameToAAAA.err = Nil
               /\ nameToAAAA.AAAA =
                      <<42, 1, 4, 248, 12, 23, 11, 143, 0, 0, 0, 0, 0, 0, 0, 2>>
          ELSE /\ nameToAAAA.path = <<"OurAandAAAARecords", "ipv6RE">>
               /\ (nameToAAAA.err = Nil) = Match(ipv6RE, name)

\* both functions were called on the name of a nameserver
ResolutionOrderWitness ==
    /\ name = NsAws
    /\ CalledA
    /\ nameToA.A = <<52, 0, 56, 137>>
    /\ CalledAAAA
    /\ nameToAAAA.err = ErrNotFound

\* s is a dotted quad the parser accepts once '-' is replaced by '.'
IsQuad(s) ==
    /\ \A k \in 1..Len(s) : s[k] \in Digits \cup {".", "-"}
    /\ To4(ParseIP(Replace(s, "-", "."))) # NilIP
\* the places <<i, j>> at which s[i+1..j] is such a dotted quad that begins
\* the name or follows a separator, and that ends the name or precedes one
Quads(s) ==
    {c \in (0..Len(s)) \X (1..Len(s)) :
        /\ c[1] < c[2]
        /\ c[1] = 0 \/ s[c[1]] \in {".", "-"}
        /\ c[2] = Len(s) \/ s[c[2] + 1] \in {".", "-"}
        /\ IsQuad(SubSeq(s, c[1] + 1, c[2]))}
\* the leftmost of them
LeftmostQuad(s) ==
    LET c == CHOOSE c \in Quads(s) : \A d \in Quads(s) : c[1] <= d[1]
    IN  SubSeq(s, c[1] + 1, c[2])

\* C3: for a name that is in no table and that holds a valid dotted quad
\* written with '.' or '-', NameToA returns the bytes of the leftmost such
\* quad.
EmbeddedIPv4 ==
    (CalledA /\ ~InTables /\ Quads(name) # {}) =>
        /\ ~nameToA.panic
        /\ nameToA.err = Nil
        /\ nameToA.A = To4(ParseIP(Replace(LeftmostQuad(name), "-", ".")))

\* the literal the pattern re matches in the name, separators replaced
MatchedLiteral(re, new) == Replace(FindSubmatch2(re, name), "-", new)

\* C6: NameToA and NameToAAAA never panic; when the literal the pattern
\* matched does not parse as an address they report ErrNotFound; and an
\* address they report as found for a name that is in no table is the parsed
\* value of the matched literal.
NoPanicNoMalformed ==
    /\ CalledA =>
          /\ ~nameToA.panic
          /\ (/\ ~InTables
              /\ Match(ipv4RE, name)
              /\ ParseIP(MatchedLiteral(ipv4RE, ".")) = NilIP)
                 => nameToA.err = ErrNotFound
          /\ (~InTables /\ nameToA.err = Nil /\ ~nameToA.panic)
                 => nameToA.A = To4(ParseIP(MatchedLiteral(ipv4RE, ".")))
    /\ CalledAAAA =>
          /\ ~nameToAAAA.panic
          /\ (/\ name \notin DOMAIN OurAandAAAARecords
              /\ Match(ipv6RE, name)
              /\ ParseIP(MatchedLiteral(ipv6RE, ":")) = NilIP)
                 => nameToAAAA.err = ErrNotFound
          /\ (name \notin DOMAIN OurAandAAAARecords /\ nameToAAAA.err = Nil)
                 => nameToAAAA.AAAA = To16(ParseIP(MatchedLiteral(ipv6RE, ":")))

====
